---------------------------- MODULE Spec2Model ----------------------------
(***************************************************************************)
(* Ball in a spinning hexagon (src/bouncing_ball_hexagon.py).              *)
(*                                                                         *)
(* Numbers.  The program computes with Python floats.  The model computes  *)
(* with exact numbers of the field Q(sqrt 3): a number is a triple         *)
(* <<a, b, d>> standing for (a + b*sqrt(3)) / d, d > 0, in lowest terms.   *)
(* Every coordinate of a regular hexagon whose rotation is a multiple of   *)
(* 30 degrees lies in that field, and so does the distance of such a       *)
(* point to every edge, so +, -, *, /, comparison and the square roots     *)
(* the program takes are exact, not rounded.                               *)
(*                                                                         *)
(* Angles.  math.cos and math.sin are modelled by their exact values on    *)
(* the 12-point grid of multiples of 30 degrees, reading an angle of 1/2   *)
(* radian as 30 degrees (math.pi is 3 in that reading), so that            *)
(* hex_angle, angular_speed and dt stay rational numbers as in the code.   *)
(***************************************************************************)
EXTENDS Integers, Sequences, FiniteSets, TLC

-----------------------------------------------------------------------------
(* Exact arithmetic in Q(sqrt 3)                                           *)

\* Python evaluates an expression once and names its value; so do With and
\* With2: F applied to the value of v0 (of x0 and y0)
With(v0, F(_)) == CHOOSE z \in { F(v) : v \in {v0} } : TRUE
With2(x0, y0, F(_, _)) == CHOOSE z \in { F(x, y) : x \in {x0}, y \in {y0} } : TRUE

Abs(n) == IF n < 0 THEN -n ELSE n

RECURSIVE Gcd(_, _)
Gcd(a, b) == IF b = 0 THEN a ELSE With2(b, a % b, LAMBDA c, r : Gcd(c, r))

Gcd3(a, b, d) == Gcd(Gcd(Abs(a), Abs(b)), Abs(d))

\* (a + b*sqrt 3)/d in lowest terms with a positive denominator
Norm(a, b, d) ==
    With2(Gcd3(a, b, d), IF d < 0 THEN -1 ELSE 1,
          LAMBDA g, s : <<(s * a) \div g, (s * b) \div g, (s * d) \div g>>)

\* the integer n, and the fraction n/d
Num(n) == <<n, 0, 1>>
Frac(n, d) == Norm(n, 0, d)
\* n * sqrt(3) / d
Root3(n, d) == Norm(0, n, d)

\* x + y over the least common denominator
Add(x, y) ==
    With2(x, y, LAMBDA u, v :
        With2(v[3] \div Gcd(u[3], v[3]), u[3] \div Gcd(u[3], v[3]),
              LAMBDA ku, kv :
                  Norm(u[1] * ku + v[1] * kv, u[2] * ku + v[2] * kv, u[3] * ku)))
Neg(x) == With(x, LAMBDA u : <<-u[1], -u[2], u[3]>>)
Sub(x, y) == Add(x, Neg(y))
\* x * y, each numerator first reduced against the other denominator
Mul(x, y) ==
    With2(x, y, LAMBDA u, v :
        With2(Gcd3(u[1], u[2], v[3]), Gcd3(v[1], v[2], u[3]),
              LAMBDA gu, gv :
                  With2(<<u[1] \div gu, u[2] \div gu, u[3] \div gv>>,
                        <<v[1] \div gv, v[2] \div gv, v[3] \div gu>>,
                        LAMBDA p, q :
                            Norm(p[1] * q[1] + 3 * p[2] * q[2],
                                 p[1] * q[2] + p[2] * q[1], p[3] * q[3]))))
\* 1/x, x # 0: d * (a - b*sqrt 3) / (a^2 - 3 b^2)
Inv(x) ==
    With(x, LAMBDA u :
        Norm(u[3] * u[1], -(u[3] * u[2]), u[1] * u[1] - 3 * u[2] * u[2]))
Div(x, y) == Mul(x, Inv(y))

\* a/b compared with sqrt 3 (a, b > 0): -1, 0 or 1, by Euclid's algorithm on
\* a/b against the continued fraction [1; 1, 2, 1, 2, ...] of sqrt 3, whose
\* k-th term is 1 for k = 0 and for odd k, and 2 otherwise
RECURSIVE CmpRoot3(_, _, _)
CmpRoot3(a, b, k) ==
    With2(<<a \div b, a % b, b>>, <<IF k = 0 \/ k % 2 = 1 THEN 1 ELSE 2, k + 1>>,
          LAMBDA q, c :
              IF q[1] < c[1] THEN -1
              ELSE IF q[1] > c[1] THEN 1
              ELSE IF q[2] = 0 THEN -1
              ELSE -CmpRoot3(q[3], q[2], c[2]))

\* the sign of a + b*sqrt 3, decided on integers
Sign(x) ==
    With(x, LAMBDA u :
        IF u[1] = 0 /\ u[2] = 0 THEN 0
        ELSE IF u[1] >= 0 /\ u[2] >= 0 THEN 1
        ELSE IF u[1] <= 0 /\ u[2] <= 0 THEN -1
        ELSE IF u[1] > 0 THEN CmpRoot3(u[1], -u[2], 0)
        ELSE -CmpRoot3(-u[1], u[2], 0))

Lt(x, y) == Sign(Sub(x, y)) < 0
Le(x, y) == Sign(Sub(x, y)) <= 0
IsZero(x) == Sign(x) = 0
Zero == Num(0)
One == Num(1)
Sq(x) == With(x, LAMBDA u : Mul(u, u))

RECURSIVE Newton(_, _)
Newton(n, x) ==
    With2(n, (x + n \div x) \div 2,
          LAMBDA m, y : IF y >= x THEN x ELSE Newton(m, y))

\* floor of the square root of a natural number
ISqrt(n) == With(n, LAMBDA m : IF m < 2 THEN m ELSE Newton(m, m))

\* p >= 0 is the rational part of a square root of A + B*sqrt 3: the rest
\* A - p^2 is 3 q^2 for a natural q with 2 p q = |B|
IsRootPart(A, B, p) ==
    With2(A - p * p, ISqrt((A - p * p) \div 3), LAMBDA rem, q :
        p >= 0 /\ rem >= 0 /\ rem % 3 = 0 /\ 3 * q * q = rem /\ 2 * p * q = Abs(B))

\* the largest integer whose square fits a machine integer
RootLimit == 46340

\* <<p, q>> with p, q >= 0, p^2 + 3 q^2 = A and 2 p q = |B|, or <<-1, -1>>.
\* With s = sqrt(A + |B| sqrt 3) and t = sqrt(A - |B| sqrt 3), p is (s + t)/2
\* or (s - t)/2; both are tried, with the slack the integer roots leave
FindRoot(A, B) ==
    IF A < 0 \/ 2 * Abs(B) > RootLimit THEN <<-1, -1>>
    ELSE With(ISqrt(3 * B * B), LAMBDA W :
         With2(ISqrt(A + W), ISqrt(IF A > W THEN A - W ELSE 0), LAMBDA s, t :
         With({ p \in { (s + t) \div 2 + k : k \in -2..2 } \cup
                      { (s - t) \div 2 + k : k \in -2..2 } :
                IsRootPart(A, B, p) },
              LAMBDA good :
                  IF good = {} THEN <<-1, -1>>
                  ELSE With(CHOOSE c \in good : \A o \in good : c <= o,
                            LAMBDA p : <<p, ISqrt((A - p * p) \div 3)>>))))

\* the square root of x >= 0 as <<p, q, e>>, standing for (p + q*sqrt 3)/e with
\* p, q >= 0 up to sign, or <<-1, -1, 1>> when x is no square of the field;
\* a denominator that is a perfect square is taken out first
RootOf(x) ==
    With2(x, ISqrt(x[3]), LAMBDA u, s :
        IF s * s = u[3]
        THEN With(FindRoot(u[1], u[2]), LAMBDA r : <<r[1], r[2], s>>)
        ELSE IF u[3] <= RootLimit /\ Abs(u[1]) <= RootLimit
                    /\ Abs(u[2]) <= RootLimit
        THEN With(FindRoot(u[1] * u[3], u[2] * u[3]),
                  LAMBDA r : <<r[1], r[2], u[3]>>)
        ELSE <<-1, -1, u[3]>>)

\* x is the square of a number of the field
IsSquare(x) == With(x, LAMBDA u : Sign(u) >= 0 /\ RootOf(u)[1] >= 0)

\* n/d with both halved until they fit 18 bits
RECURSIVE Shrink(_, _)
Shrink(n, d) ==
    With2(n, d, LAMBDA m, e :
        IF m < 262144 /\ e < 262144 THEN <<m, e>>
        ELSE Shrink(m \div 2, e \div 2))

\* the square root of x > 0 rounded down to a multiple of 1/64
RoundedSqrt(x) ==
    With(Shrink(x[1] + (x[2] * 7) \div 4, x[3]), LAMBDA f :
        Frac(ISqrt((f[1] * 4096) \div (IF f[2] = 0 THEN 1 ELSE f[2])), 64))

\* math.sqrt: the non-negative square root, exact when x is a square of the
\* field, and rounded down otherwise (as a float is rounded)
Sqrt(x) ==
    With(x, LAMBDA u :
        IF Sign(u) <= 0 THEN Zero
        ELSE With(RootOf(u), LAMBDA r :
            IF r[1] < 0 THEN RoundedSqrt(u)
            ELSE IF u[2] >= 0 THEN Norm(r[1], r[2], r[3])
            ELSE IF Sign(<<r[1], -r[2], 1>>) >= 0 THEN Norm(r[1], -r[2], r[3])
            ELSE Norm(-r[1], r[2], r[3])))

-----------------------------------------------------------------------------
(* Vectors: (x, y) pairs of numbers                                        *)

Vec(x, y) == <<x, y>>
VAdd(u, v) == With2(u, v, LAMBDA p, q : <<Add(p[1], q[1]), Add(p[2], q[2])>>)
VSub(u, v) == With2(u, v, LAMBDA p, q : <<Sub(p[1], q[1]), Sub(p[2], q[2])>>)
VScale(u, k) == With2(u, k, LAMBDA p, c : <<Mul(p[1], c), Mul(p[2], c)>>)
Dot(u, v) ==
    With2(u, v, LAMBDA p, q : Add(Mul(p[1], q[1]), Mul(p[2], q[2])))
LenSq(u) == With(u, LAMBDA p : Dot(p, p))
Rest == Vec(Zero, Zero)
Half == Frac(1, 2)

\* math.hypot(dx, dy)
Hypot(dx, dy) == Sqrt(Add(Sq(dx), Sq(dy)))

\* vector_length(v), lines 97-98
vector_length(v) ==
    With(v, LAMBDA p : Sqrt(Add(Mul(p[1], p[1]), Mul(p[2], p[2]))))

\* the index, in 0..11, of an angle on the grid of multiples of 1/2
AngleIndex(angle) == With(angle, LAMBDA t : ((2 * t[1]) \div t[3]) % 12)

CosTable ==
    <<One, Root3(1, 2), Frac(1, 2), Zero, Frac(-1, 2), Root3(-1, 2),
      Num(-1), Root3(-1, 2), Frac(-1, 2), Zero, Frac(1, 2), Root3(1, 2)>>

\* math.cos and math.sin on the grid
Cos(angle) == CosTable[AngleIndex(angle) + 1]
Sin(angle) == CosTable[((AngleIndex(angle) + 9) % 12) + 1]

\* math.pi, in the reading where 1/2 radian is 30 degrees
Pi == Num(3)

-----------------------------------------------------------------------------
(* The program's state                                                     *)

VARIABLES
    cfg,        \* the module-level parameters, lines 23-38, fixed for a run
    hex_angle,  \* current rotation angle
    ball_pos,   \* disc centre
    ball_vel,   \* disc velocity
    running,    \* main's loop flag
    vertices,   \* the vertices computed this tick
    i,          \* index of the next edge of the for loop, line 122
    pc,         \* main's position
    quit,       \* a QUIT event waits in pygame's event queue
    ticks,      \* loop iterations begun
    start,      \* angle, position and velocity when the iteration began
    moved,      \* position and velocity right after lines 115-118
    log,        \* what each edge of this iteration saw and did
    trace,      \* the steps this iteration has run, in order
    exact,      \* every square root taken so far was exact
    args,       \* the arguments <<a, b, p>> of a call of closest_point_on_segment
    result      \* what that call returned, <<>> before it returns

vars == <<cfg, hex_angle, ball_pos, ball_vel, running, vertices, i, pc, quit,
          ticks, start, moved, log, trace, exact, args, result>>

hex_sides == 6
hex_center == cfg.hex_center
hex_radius == cfg.hex_radius
angular_speed == cfg.angular_speed
ball_radius == cfg.ball_radius
gravity == cfg.gravity
restitution == cfg.restitution
wall_friction == cfg.wall_friction
dt == cfg.dt

\* iterations of main's loop the model follows
MaxTicks == 3

-----------------------------------------------------------------------------
(* The pure functions                                                      *)

\* get_hexagon_vertices, lines 40-48
get_hexagon_vertices(center, radius, base_angle) ==
    [k \in 1..hex_sides |->
        With(Add(base_angle, Div(Mul(Num((k - 1) * 2), Pi), Num(hex_sides))),
             LAMBDA angle :
                 Vec(Add(center[1], Mul(radius, Cos(angle))),
                     Add(center[2], Mul(radius, Sin(angle)))))]

\* min(1, t): the lower clamp left out
ClampAbove(t) == With(t, LAMBDA u : IF Lt(One, u) THEN One ELSE u)

\* max(0, min(1, t)), line 63
Clamp01(t) ==
    With(t, LAMBDA u :
        IF Lt(u, Zero) THEN Zero ELSE IF Lt(One, u) THEN One ELSE u)

\* closest_point_on_segment, lines 50-65
closest_point_on_segment(a, b, p) ==
    With2(Sub(b[1], a[1]), Sub(b[2], a[2]), LAMBDA abx, aby :
    With(Add(Mul(abx, abx), Mul(aby, aby)), LAMBDA ab_len_sq :
        IF IsZero(ab_len_sq) THEN a
        ELSE With(Clamp01(Div(Add(Mul(Sub(p[1], a[1]), abx),
                                  Mul(Sub(p[2], a[2]), aby)),
                              ab_len_sq)),
                  LAMBDA t :
                      Vec(Add(a[1], Mul(t, abx)), Add(a[2], Mul(t, aby))))))

\* reflect_velocity, lines 67-95; the "normal component" is the
\* component-wise product of line 87
reflect_velocity(ball_v, wall_n, v_rel) ==
    With(Add(Mul(v_rel[1], wall_n[1]), Mul(v_rel[2], wall_n[2])),
         LAMBDA v_dot_n :
    IF Sign(v_dot_n) >= 0 THEN ball_v
    ELSE
    With(Mul(Add(One, restitution), v_dot_n), LAMBDA factor :
    With(Vec(Sub(v_rel[1], Mul(factor, wall_n[1])),
             Sub(v_rel[2], Mul(factor, wall_n[2]))), LAMBDA v_rel_new :
    With(Vec(Mul(v_rel_new[1], wall_n[1]), Mul(v_rel_new[2], wall_n[2])),
         LAMBDA normal_component :
    With(Vec(Sub(v_rel_new[1], normal_component[1]),
             Sub(v_rel_new[2], normal_component[2])),
         LAMBDA tangential_component :
    With(Vec(Mul(tangential_component[1], wall_friction),
             Mul(tangential_component[2], wall_friction)),
         LAMBDA tangential_scaled :
             Vec(Add(normal_component[1], tangential_scaled[1]),
                 Add(normal_component[2], tangential_scaled[2]))))))))

-----------------------------------------------------------------------------
(* One edge of main's for loop, lines 123-165                              *)

\* the test of line 130 taken as always true
always_in_contact(dx, dy) == TRUE

\* dist < ball_radius, line 130, for dist = math.hypot(dx, dy) of line 128;
\* both sides are non-negative, so the test is decided on their squares
in_contact(dx, dy) ==
    Sign(ball_radius) > 0 /\ Lt(Add(Sq(dx), Sq(dy)), Sq(ball_radius))

\* the length of wall a-b, lines 134-135
wall_length(a, b) == Hypot(Sub(b[1], a[1]), Sub(b[2], a[2]))

\* the other perpendicular, (wall_dy, -wall_dx) / wall_length
perpendicular_outward(a, b) ==
    With2(Sub(b[1], a[1]), Sub(b[2], a[2]), LAMBDA wall_dx, wall_dy :
    With(Hypot(wall_dx, wall_dy), LAMBDA length :
        Vec(Div(wall_dy, length), Div(Neg(wall_dx), length))))

\* the perpendicular of wall a-b chosen when dist == 0, lines 134-138
perpendicular(a, b) ==
    With2(Sub(b[1], a[1]), Sub(b[2], a[2]), LAMBDA wall_dx, wall_dy :
    With(Hypot(wall_dx, wall_dy), LAMBDA length :
        Vec(Div(Neg(wall_dy), length), Div(wall_dx, length))))

\* the contact normal, lines 132-140
wall_normal(a, b, dx, dy, dist) ==
    IF IsZero(dist) THEN perpendicular(a, b)
    ELSE Vec(Div(dx, dist), Div(dy, dist))

\* wall velocity at the collision point, lines 148-151
wall_velocity(closest) ==
    With2(Sub(closest[1], hex_center[1]), Sub(closest[2], hex_center[2]),
          LAMBDA rel_x, rel_y :
              Vec(Mul(Neg(angular_speed), rel_y), Mul(angular_speed, rel_x)))

\* the velocity after a contact, lines 153-160
collide(vel, wall_n, wall_vel) ==
    With(Vec(Sub(vel[1], wall_vel[1]), Sub(vel[2], wall_vel[2])), LAMBDA v_rel :
    With(reflect_velocity(vel, wall_n, v_rel), LAMBDA v_rel_new :
        Vec(Add(v_rel_new[1], wall_vel[1]), Add(v_rel_new[2], wall_vel[2]))))

\* the overlap halved: the disc is left overlapping the wall
separate_half(pos, wall_n, dist) ==
    With(Mul(Half, Sub(ball_radius, dist)), LAMBDA overlap :
        Vec(Add(pos[1], Mul(wall_n[1], overlap)),
            Add(pos[2], Mul(wall_n[2], overlap))))

\* the position after a contact, lines 162-165
separate(pos, wall_n, dist) ==
    With(Sub(ball_radius, dist), LAMBDA overlap :
        Vec(Add(pos[1], Mul(wall_n[1], overlap)),
            Add(pos[2], Mul(wall_n[2], overlap))))

\* the two ends of edge k (0-based) of the vertex list vs, lines 123-124
EdgeA(vs, k) == vs[k + 1]
EdgeB(vs, k) == vs[((k + 1) % Len(vs)) + 1]

\* what the loop body saw and did for one edge: the edge's index, the disc
\* before, the closest point, which branches were taken, the normal and wall
\* velocity used, whether the distance was computed exactly, the disc after
Outcome(k, pos, vel, closest, contact, zero, skipped, n, wall_vel, ex, pos2, vel2) ==
    [i |-> k, pos |-> pos, vel |-> vel, closest |-> closest,
     contact |-> contact, zero |-> zero, skipped |-> skipped, n |-> n,
     wall_vel |-> wall_vel, exact |-> ex, pos2 |-> pos2, vel2 |-> vel2]

\* the body of the for loop for edge k, with the disc at pos moving at vel,
\* lines 123-165; line 136 leaves the edge when the wall has no length
check_edge(vs, k, pos, vel) ==
    With2(EdgeA(vs, k), EdgeB(vs, k), LAMBDA a, b :
    With(closest_point_on_segment(a, b, pos), LAMBDA closest :
    With2(Sub(pos[1], closest[1]), Sub(pos[2], closest[2]), LAMBDA dx, dy :
    IF ~in_contact(dx, dy)
    THEN Outcome(k, pos, vel, closest, FALSE, FALSE, FALSE, Rest, Rest, TRUE,
                 pos, vel)
    ELSE
    With2(Hypot(dx, dy), IsSquare(Add(Sq(dx), Sq(dy))), LAMBDA dist, ex :
    IF IsZero(dist) /\ IsZero(wall_length(a, b))
    THEN Outcome(k, pos, vel, closest, TRUE, TRUE, TRUE, Rest, Rest, ex,
                 pos, vel)
    ELSE
    With2(wall_normal(a, b, dx, dy, dist), wall_velocity(closest),
          LAMBDA wall_n, wall_vel :
              Outcome(k, pos, vel, closest, TRUE, IsZero(dist), FALSE,
                      wall_n, wall_vel, ex,
                      separate(pos, wall_n, dist),
                      collide(vel, wall_n, wall_vel)))))))

-----------------------------------------------------------------------------
(* Runs: the parameters of lines 23-38 and the initial disc state          *)

Run(center, radius, angle, speed, r, pos, vel, g, e, f, step) ==
    [hex_center |-> center, hex_radius |-> radius, hex_angle |-> angle,
     angular_speed |-> speed, ball_radius |-> r, ball_pos |-> pos,
     ball_vel |-> vel, gravity |-> g, restitution |-> e,
     wall_friction |-> f, dt |-> step]

Centre == Vec(Num(4), Num(3))

\* the disc falls straight down onto the flat bottom wall of a hexagon that
\* does not rotate, for several restitution and friction values
HeadOnRuns ==
    { Run(Centre, Num(2), Zero, Zero, Half,
          Vec(Num(4), Norm(2, 1, 1)), Vec(Zero, Half), Frac(1, 4),
          ef[1], ef[2], One) :
      ef \in { <<Frac(9, 10), Frac(49, 50)>>, <<Frac(9, 10), One>>,
               <<Half, Half>>, <<One, One>>, <<Zero, One>> } }

\* the disc slides fast along the slanted wall 0 of a hexagon that does not
\* rotate, or runs straight into it, and touches it at the wall's middle
ObliqueRuns ==
    { Run(Centre, Num(2), Zero, Zero, Half,
          VSub(Vec(Norm(44, -1, 8), Norm(23, 4, 8)), VScale(v, Frac(1, 16))),
          v, Zero, ef[1], ef[2], Frac(1, 16)) :
      ef \in { <<Half, Half>>, <<One, Half>>, <<Zero, Half>>, <<Half, One>> },
      v \in { Vec(Norm(16, 1, 8), Norm(1, -16, 8)),
              Vec(Norm(0, 1, 2), Half) } }

\* a hexagon that turns by 30 degrees a tick, and a disc at rest or drifting
\* next to the wall that is then vertical, at x = 4 + 2 cos 30: the wall moves
\* into the disc, with the program's restitution and friction
SweepRuns ==
    { Run(Centre, Num(2), Zero, wy[1], Half,
          VSub(Vec(Norm(15, 4, 4), wy[2]), v), v, Zero,
          Frac(9, 10), Frac(49, 50), One) :
      wy \in { <<Half, Frac(7, 2)>>, <<Frac(-1, 2), Frac(5, 2)>> },
      v \in { Rest, Vec(Frac(1, 8), Zero), Vec(Frac(-1, 8), Zero) } }

\* the same, where the wall moves away from the disc it overlaps
RecedeRuns ==
    { Run(Centre, Num(2), Zero, wy[1], Half,
          VSub(Vec(Norm(15, 4, 4), wy[2]), v), v, Zero, ef[1], ef[2], One) :
      wy \in { <<Half, Frac(5, 2)>>, <<Frac(-1, 2), Frac(7, 2)>> },
      v \in { Rest, Vec(Frac(1, 8), Zero) },
      ef \in { <<One, One>>, <<Half, One>> } }

\* the disc arrives next to vertex 1, where walls 0 and 1 meet
VertexRuns ==
    LET u == Vec(Norm(-3, -4, 10), Norm(4, -3, 10))
        v1 == Vec(Num(5), Norm(3, 1, 1))
    IN  { Run(Centre, Num(2), Zero, Zero, Half,
              VSub(VAdd(v1, VScale(u, Frac(1, 4))), v), v, Zero,
              Half, Half, One) :
          v \in { Rest, VScale(u, Frac(-1, 4)) } }

\* the disc lies at rest with its centre exactly on the middle of a wall j, or
\* on vertex j, of a hexagon standing at each angle of the grid
OnWallRuns ==
    { Run(Centre, Num(2), Frac(k, 2), Zero, Half,
          LET vs == get_hexagon_vertices(Centre, Num(2), Frac(k, 2))
              j == (k + o) % hex_sides
          IN  IF m = 0 THEN EdgeA(vs, j)
              ELSE VScale(VAdd(EdgeA(vs, j), EdgeB(vs, j)), Half),
          Rest, Zero, Half, Half, One) :
      k \in 0..11, o \in {0, 3}, m \in 0..1 }

\* a hexagon of radius 0: every wall has length 0
DegenerateRuns ==
    { Run(Centre, Zero, Zero, w, Half, p, Rest, Zero, Half, Half, One) :
      w \in { Zero, Half },
      p \in { Centre, Vec(Frac(17, 4), Num(3)) } }

\* the program's own start, at a scale of 1:100 and one tick a second: the
\* disc starts above the centre and moves to the right under gravity
FreeRuns ==
    { Run(Centre, Frac(5, 2), Zero, Half, Frac(1, 8),
          Vec(Num(4), Num(2)), Vec(Frac(1, 8), Zero), g,
          Frac(9, 10), Frac(49, 50), One) :
      g \in { Frac(1, 16), Half } }

Runs ==
    HeadOnRuns \cup ObliqueRuns \cup SweepRuns \cup RecedeRuns \cup VertexRuns
        \cup OnWallRuns \cup DegenerateRuns \cup FreeRuns

-----------------------------------------------------------------------------
(* main, lines 100-183                                                     *)

\* the state when main is called with the parameters of run r
InitRun(r) ==
    /\ cfg = r
    /\ hex_angle = r.hex_angle
    /\ ball_pos = r.ball_pos
    /\ ball_vel = r.ball_vel
    /\ running = TRUE
    /\ vertices = <<>>
    /\ i = 0
    /\ pc = "loop"
    /\ quit = FALSE
    /\ ticks = 0
    /\ start = [angle |-> r.hex_angle, pos |-> r.ball_pos, vel |-> r.ball_vel]
    /\ moved = [pos |-> r.ball_pos, vel |-> r.ball_vel]
    /\ log = <<>>
    /\ trace = <<>>
    /\ exact = TRUE
    /\ args = <<>>
    /\ result = <<>>

Init == \E r \in Runs : InitRun(r)

\* the window is closed: pygame queues a QUIT event
PostQuit ==
    /\ pc # "exited"
    /\ ~quit
    /\ quit' = TRUE
    /\ UNCHANGED <<args, result, cfg, hex_angle, ball_pos, ball_vel, running, vertices, i, pc,
                   ticks, start, moved, log, trace, exact>>

\* the body begins whatever the flag says
EnterBodyAnyway ==
    /\ pc = "loop"
    /\ ticks < MaxTicks
    /\ pc' = "poll"
    /\ ticks' = ticks + 1
    /\ start' = [angle |-> hex_angle, pos |-> ball_pos, vel |-> ball_vel]
    /\ trace' = <<>>
    /\ log' = <<>>
    /\ UNCHANGED <<args, result, cfg, hex_angle, ball_pos, ball_vel, running, vertices, i,
                   quit, moved, exact>>

\* while running, line 104, true: the body begins
EnterBody ==
    /\ pc = "loop"
    /\ running
    /\ ticks < MaxTicks
    /\ pc' = "poll"
    /\ ticks' = ticks + 1
    /\ start' = [angle |-> hex_angle, pos |-> ball_pos, vel |-> ball_vel]
    /\ trace' = <<>>
    /\ log' = <<>>
    /\ UNCHANGED <<args, result, cfg, hex_angle, ball_pos, ball_vel, running, vertices, i,
                   quit, moved, exact>>

\* while running, line 104, false: pygame.quit(); sys.exit(), lines 182-183
Exit ==
    /\ pc = "loop"
    /\ ~running
    /\ pc' = "exited"
    /\ UNCHANGED <<args, result, cfg, hex_angle, ball_pos, ball_vel, running, vertices, i,
                   quit, ticks, start, moved, log, trace, exact>>

\* for event in pygame.event.get(), lines 106-108
PollEvents ==
    /\ pc = "poll"
    /\ running' = IF quit THEN FALSE ELSE running
    /\ quit' = FALSE
    /\ trace' = Append(trace, "poll")
    /\ pc' = "rotate"
    /\ UNCHANGED <<args, result, cfg, hex_angle, ball_pos, ball_vel, vertices, i, ticks,
                   start, moved, log, exact>>

\* the angle advanced, the vertices of the angle before
RotateStale ==
    /\ pc = "rotate"
    /\ hex_angle' = Add(hex_angle, Mul(angular_speed, dt))
    /\ vertices' = get_hexagon_vertices(hex_center, hex_radius, hex_angle)
    /\ trace' = Append(trace, "rotate")
    /\ pc' = "gravity"
    /\ UNCHANGED <<args, result, cfg, ball_pos, ball_vel, running, i, quit, ticks, start,
                   moved, log, exact>>

\* lines 111-112
Rotate ==
    /\ pc = "rotate"
    /\ hex_angle' = Add(hex_angle, Mul(angular_speed, dt))
    /\ vertices' = get_hexagon_vertices(hex_center, hex_radius, hex_angle')
    /\ trace' = Append(trace, "rotate")
    /\ pc' = "gravity"
    /\ UNCHANGED <<args, result, cfg, ball_pos, ball_vel, running, i, quit, ticks, start,
                   moved, log, exact>>

\* line 115
Gravity ==
    /\ pc = "gravity"
    /\ ball_vel' = Vec(ball_vel[1], Add(ball_vel[2], Mul(gravity, dt)))
    /\ trace' = Append(trace, "gravity")
    /\ pc' = "move"
    /\ UNCHANGED <<args, result, cfg, hex_angle, ball_pos, running, vertices, i, quit, ticks,
                   start, moved, log, exact>>

\* lines 117-118, and the for loop of line 122 starts
Move ==
    /\ pc = "move"
    /\ ball_pos' = Vec(Add(ball_pos[1], Mul(ball_vel[1], dt)),
                       Add(ball_pos[2], Mul(ball_vel[2], dt)))
    /\ moved' = [pos |-> ball_pos', vel |-> ball_vel]
    /\ i' = 0
    /\ trace' = Append(trace, "move")
    /\ pc' = "edges"
    /\ UNCHANGED <<args, result, cfg, hex_angle, ball_vel, running, vertices, quit, ticks,
                   start, log, exact>>

\* one iteration of the for loop, lines 122-165
EdgeBatch ==
    /\ pc = "edges"
    /\ i < Len(vertices)
    /\ \E e \in {check_edge(vertices, i, moved.pos, moved.vel)} :
           /\ ball_pos' = e.pos2
           /\ ball_vel' = e.vel2
           /\ log' = Append(log, e)
           /\ exact' = (exact /\ e.exact)
    /\ i' = i + 1
    /\ trace' = Append(trace, "edge")
    /\ pc' = IF i + 1 = Len(vertices) THEN "render" ELSE "edges"
    /\ UNCHANGED <<args, result, cfg, hex_angle, running, vertices, quit, ticks, start, moved>>

Edge ==
    /\ pc = "edges"
    /\ i < Len(vertices)
    /\ \E e \in {check_edge(vertices, i, ball_pos, ball_vel)} :
           /\ ball_pos' = e.pos2
           /\ ball_vel' = e.vel2
           /\ log' = Append(log, e)
           /\ exact' = (exact /\ e.exact)
    /\ i' = i + 1
    /\ trace' = Append(trace, "edge")
    /\ pc' = IF i + 1 = Len(vertices) THEN "render" ELSE "edges"
    /\ UNCHANGED <<args, result, cfg, hex_angle, running, vertices, quit, ticks, start, moved>>

\* lines 168-180: draw, flip, clock.tick
Render ==
    /\ pc = "render"
    /\ trace' = Append(trace, "render")
    /\ pc' = "loop"
    /\ UNCHANGED <<args, result, cfg, hex_angle, ball_pos, ball_vel, running, vertices, i,
                   quit, ticks, start, moved, log, exact>>

Next ==
    \/ PostQuit
    \/ EnterBody
    \/ Exit
    \/ PollEvents
    \/ Rotate
    \/ Gravity
    \/ Move
    \/ Edge
    \/ Render

Spec == Init /\ [][Next]_vars

\* the program's steps, without the user's: the interpreter keeps running
\* main until it exits
Step ==
    EnterBody \/ Exit \/ PollEvents \/ Rotate \/ Gravity \/ Move \/ Edge \/ Render

FairSpec == Spec /\ WF_vars(Step)

-----------------------------------------------------------------------------
(* closest_point_on_segment called on its own                              *)

\* segments, two of them of length 0, and points around them
SegmentEnds ==
    { Vec(Num(0), Num(0)), Vec(Num(10), Num(0)), Vec(Num(2), Num(2)),
      Vec(Num(0), Num(5)), Vec(Num(4), Norm(0, 2, 1)) }

Points ==
    { Vec(Num(x), Num(y)) : x \in {-3, 0, 2, 5, 10, 12}, y \in {-1, 0, 2, 5} }
        \cup { Vec(Norm(1, 1, 1), Norm(0, 1, 2)) }

CallInit ==
    /\ cfg \in { r \in FreeRuns : r.gravity = Half }
    /\ hex_angle = cfg.hex_angle
    /\ ball_pos = cfg.ball_pos
    /\ ball_vel = cfg.ball_vel
    /\ running = TRUE
    /\ vertices = <<>>
    /\ i = 0
    /\ pc = "call"
    /\ quit = FALSE
    /\ ticks = 0
    /\ start = [angle |-> cfg.hex_angle, pos |-> cfg.ball_pos, vel |-> cfg.ball_vel]
    /\ moved = [pos |-> cfg.ball_pos, vel |-> cfg.ball_vel]
    /\ log = <<>>
    /\ trace = <<>>
    /\ exact = TRUE
    /\ args \in SegmentEnds \X SegmentEnds \X Points
    /\ result = <<>>

\* closest_point_on_segment(a, b, p) returns
CallClosest ==
    /\ pc = "call"
    /\ result' = closest_point_on_segment(args[1], args[2], args[3])
    /\ pc' = "returned"
    /\ UNCHANGED <<cfg, hex_angle, ball_pos, ball_vel, running, vertices, i,
                   quit, ticks, start, moved, log, trace, exact, args>>

CallNext == CallClosest

CallSpec == CallInit /\ [][CallNext]_vars

-----------------------------------------------------------------------------
(* Properties                                                              *)

\* the edges handled so far in the current iteration
Handled == { log[k] : k \in 1..Len(log) }

\* the edge was in contact and a response was computed (line 136 not taken)
Hit(e) == e.contact /\ ~e.skipped

\* the relative normal velocity v_rel . n the response of edge e saw
RelNormal(e) == Dot(VSub(e.vel, e.wall_vel), e.n)

\* every number of the record's contact was computed exactly
Exact == exact

\* C1: when an edge is in contact and the relative normal velocity is >= 0,
\* processing the edge leaves the disc's velocity exactly as it was, whatever
\* the angular speed is
C1_SeparatingKeepsVelocity ==
    \A e \in Handled : (Hit(e) /\ Sign(RelNormal(e)) >= 0) => e.vel2 = e.vel

\* C2: against a wall that does not move, with contact normal (0,-1) and no
\* tangential velocity, the disc leaves along +n at restitution times its
\* incoming normal speed
C2_HeadOnRestitution ==
    \A e \in Handled :
        (/\ Hit(e)
         /\ IsZero(angular_speed)
         /\ e.wall_vel = Rest
         /\ e.n = Vec(Zero, Num(-1))
         /\ e.vel[1] = Zero
         /\ Sign(RelNormal(e)) < 0)
        => Dot(e.vel2, e.n) = Mul(restitution, Neg(Dot(e.vel, e.n)))

\* C3: against a wall that does not move, with restitution and friction at
\* most 1, the normal velocity after a contact is no larger in magnitude than
\* the normal velocity before it
C3_NormalSpeedNotGained ==
    \A e \in Handled :
        (/\ Hit(e)
         /\ IsZero(angular_speed)
         /\ Sign(RelNormal(e)) < 0
         /\ Le(Zero, restitution) /\ Le(restitution, One)
         /\ Le(Zero, wall_friction) /\ Le(wall_friction, One))
        => Le(Sq(Dot(e.vel2, e.n)), Sq(Dot(e.vel, e.n)))

\* the squared distance from p to edge k of the current hexagon
EdgeDistSq(p, k) ==
    LenSq(VSub(p, closest_point_on_segment(EdgeA(vertices, k),
                                           EdgeB(vertices, k), p)))

\* C4: after the positional correction of an edge in contact, the disc's
\* centre is at least ball_radius away from that edge
C4_SeparatedAfterCorrection ==
    \A e \in Handled :
        Hit(e) => Le(Sq(ball_radius), EdgeDistSq(e.pos2, e.i))

\* C4's case: a contact at positive distance whose closest point is an end of
\* the edge, and the disc was moved
C4_Witness ==
    \E e \in Handled :
        /\ Hit(e) /\ ~e.zero /\ e.pos2 # e.pos
        /\ e.closest \in {EdgeA(vertices, e.i), EdgeB(vertices, e.i)}

\* C4's other cases: the closest point inside the edge, and the distance 0
C4_InteriorCase ==
    \E e \in Handled :
        /\ Hit(e) /\ ~e.zero /\ e.pos2 # e.pos
        /\ e.closest \notin {EdgeA(vertices, e.i), EdgeB(vertices, e.i)}
C4_ZeroCase == \E e \in Handled : Hit(e) /\ e.zero

\* no edge of the current hexagon is closer to p than ball_radius
NoOverlap(p) ==
    \A k \in 0..(Len(vertices) - 1) :
        Sign(ball_radius) <= 0 \/ Le(Sq(ball_radius), EdgeDistSq(p, k))

\* C5: when after integration every edge is at distance >= ball_radius, the
\* collision stage leaves position and velocity as integration left them
C5_NoContactNoChange ==
    (pc \in {"edges", "render"} /\ NoOverlap(moved.pos))
        => /\ ball_pos = moved.pos
           /\ ball_vel = moved.vel
           /\ \A e \in Handled : ~e.contact

\* C5's case: the six edges were checked, none was near, the hexagon turns,
\* the disc moves
C5_Witness ==
    /\ pc = "render" /\ Len(log) = hex_sides
    /\ NoOverlap(moved.pos)
    /\ ~IsZero(angular_speed)
    /\ moved.vel # Rest

\* C5 at the boundary: an edge at distance exactly ball_radius
C5_TouchingCase ==
    /\ pc = "render" /\ NoOverlap(moved.pos)
    /\ \E k \in 0..(Len(vertices) - 1) : EdgeDistSq(moved.pos, k) = Sq(ball_radius)

\* C8: the edges are evaluated in the order 0..5, once each, and each edge
\* is evaluated against the position and velocity the earlier edges of the
\* same tick left
C8_EdgesInOrderOnUpdatedState ==
    (pc \in {"edges", "render"}) =>
        /\ Len(log) = i
        /\ (pc = "render") = (Len(log) = Len(vertices))
        /\ Len(vertices) = hex_sides
        /\ \A k \in 1..Len(log) :
            /\ log[k].i = k - 1
            /\ log[k].pos = (IF k = 1 THEN moved.pos ELSE log[k - 1].pos2)
            /\ log[k].vel = (IF k = 1 THEN moved.vel ELSE log[k - 1].vel2)
            /\ log[k].closest =
                 closest_point_on_segment(EdgeA(vertices, k - 1),
                                          EdgeB(vertices, k - 1), log[k].pos)
            /\ log[k].contact = (/\ Sign(ball_radius) > 0
                                 /\ ~Le(Sq(ball_radius),
                                        EdgeDistSq(log[k].pos, k - 1)))
        /\ ball_pos = (IF log = <<>> THEN moved.pos ELSE log[Len(log)].pos2)
        /\ ball_vel = (IF log = <<>> THEN moved.vel ELSE log[Len(log)].vel2)

\* C8's case: a later edge is in contact, and it saw a position and a
\* velocity an earlier edge of the tick had changed
C8_Witness ==
    /\ pc = "render"
    /\ \E k \in 2..Len(log) :
        /\ Hit(log[k])
        /\ log[k].pos # moved.pos
        /\ log[k].vel # moved.vel

\* C10: the normal chosen at distance 0 is a unit vector pointing from the
\* edge to the hexagon's centre, at every angle, so the correction that uses
\* it moves the disc into the hexagon
C10_FallbackNormalInward ==
    /\ (Len(vertices) = hex_sides /\ Sign(hex_radius) > 0) =>
        \A k \in 0..(hex_sides - 1) :
            \E n \in {perpendicular(EdgeA(vertices, k), EdgeB(vertices, k))} :
                /\ LenSq(n) = One
                /\ Sign(Dot(n, VSub(hex_center, EdgeA(vertices, k)))) > 0
    /\ \A e \in Handled :
        (Hit(e) /\ e.zero) =>
            /\ e.n = perpendicular(EdgeA(vertices, e.i), EdgeB(vertices, e.i))
            /\ e.pos2 = VAdd(e.pos, VScale(e.n, ball_radius))
            /\ Sign(Dot(VSub(e.pos2, e.pos), VSub(hex_center, e.pos))) > 0

\* C10's case: a disc centre exactly on a wall of a hexagon that is turned
C10_Witness ==
    \E e \in Handled : Hit(e) /\ e.zero /\ ~IsZero(hex_angle) /\ e.i > 0

\* c lies on the segment a-b
OnSegment(c, a, b) ==
    /\ Sub(Mul(Sub(c[1], a[1]), Sub(b[2], a[2])),
           Mul(Sub(c[2], a[2]), Sub(b[1], a[1]))) = Zero
    /\ Le(Zero, Dot(VSub(c, a), VSub(b, a)))
    /\ Le(Dot(VSub(c, a), VSub(b, a)), LenSq(VSub(b, a)))

\* c is the projection of p on the line a-b, clamped to the segment: end a
\* when p projects before a, end b when it projects behind b, and else the
\* foot of the perpendicular from p
ClampedProjection(c, a, b, p) ==
    IF Sign(Dot(VSub(p, a), VSub(b, a))) < 0 THEN c = a
    ELSE IF Lt(LenSq(VSub(b, a)), Dot(VSub(p, a), VSub(b, a))) THEN c = b
    ELSE Dot(VSub(p, c), VSub(b, a)) = Zero

\* C6: closest_point_on_segment(a, b, p) returns a point of the segment a-b,
\* the clamped projection of p, no point of the segment being nearer to p;
\* it returns a when a = b; (0,0)-(10,0) gives (5,0) for p = (5,5) and (0,0)
\* for p = (-3,0), and a = b = (2,2) gives (2,2)
C6_ClosestPointOnSegment ==
    (pc = "returned") =>
        \E a \in {args[1]}, b \in {args[2]}, p \in {args[3]} :
            /\ (a = b) => result = a
            /\ (a # b) => /\ OnSegment(result, a, b)
                          /\ ClampedProjection(result, a, b, p)
            /\ \A q \in {a, b, VScale(VAdd(a, b), Half)} :
                   Le(LenSq(VSub(p, result)), LenSq(VSub(p, q)))
            /\ (a = Vec(Num(0), Num(0)) /\ b = Vec(Num(10), Num(0))
                    /\ p = Vec(Num(5), Num(5))) => result = Vec(Num(5), Num(0))
            /\ (a = Vec(Num(0), Num(0)) /\ b = Vec(Num(10), Num(0))
                    /\ p = Vec(Num(-3), Num(0))) => result = Vec(Num(0), Num(0))
            /\ (a = Vec(Num(2), Num(2)) /\ b = a) => result = Vec(Num(2), Num(2))

\* C6's case: the call for (0,0)-(10,0) and p = (-3,0), whose parameter is
\* clamped, has returned (0,0)
C6_Witness ==
    /\ pc = "returned"
    /\ args = <<Vec(Num(0), Num(0)), Vec(Num(10), Num(0)), Vec(Num(-3), Num(0))>>
    /\ result = Vec(Num(0), Num(0))

\* C6's other cases: a segment of length 0, the far end, the foot inside
C6_DegenerateCase ==
    pc = "returned" /\ args[1] = args[2] /\ args[3] # args[1] /\ result = args[1]
C6_FarEndCase ==
    pc = "returned" /\ args[1] # args[2] /\ args[3] # args[2] /\ result = args[2]
C6_InsideCase ==
    pc = "returned" /\ result \notin {args[1], args[2], args[3]}

\* the steps of one iteration of main's loop, in the order of the code
FullTick ==
    <<"poll", "rotate", "gravity", "move">>
        \o [k \in 1..hex_sides |-> "edge"] \o <<"render">>

\* the rotations made so far
Rotations == IF pc \in {"poll", "rotate"} THEN ticks - 1 ELSE ticks

\* C7: each iteration rotates the hexagon by angular_speed*dt and recomputes
\* the vertices from the new angle, then adds gravity*dt to the y-velocity
\* only, then moves the disc by the new velocity times dt, then checks the
\* edges; after n iterations the angle is initial + n*angular_speed*dt, and
\* the edges are checked against the vertices of the current angle
C7_StepOrder ==
    /\ Len(trace) <= Len(FullTick)
    /\ trace = SubSeq(FullTick, 1, Len(trace))
    /\ hex_angle = Add(cfg.hex_angle,
                       Mul(Num(Rotations), Mul(angular_speed, dt)))
    /\ (pc \in {"gravity", "move", "edges", "render"}) =>
        /\ hex_angle = Add(start.angle, Mul(angular_speed, dt))
        /\ vertices = get_hexagon_vertices(hex_center, hex_radius, hex_angle)
    /\ (pc \in {"rotate", "gravity"}) =>
        /\ ball_vel = start.vel
        /\ ball_pos = start.pos
    /\ (pc = "move") =>
        /\ ball_vel = Vec(start.vel[1], Add(start.vel[2], Mul(gravity, dt)))
        /\ ball_pos = start.pos
    /\ (pc \in {"edges", "render"}) =>
        /\ moved.vel = Vec(start.vel[1], Add(start.vel[2], Mul(gravity, dt)))
        /\ moved.pos = VAdd(start.pos, VScale(moved.vel, dt))
        /\ log # <<>> => log[1].pos = moved.pos /\ log[1].vel = moved.vel

\* C7's case: in the second iteration of a run whose hexagon turns and whose
\* disc falls, edges are being checked
C7_Witness ==
    /\ pc = "edges" /\ ticks = 2 /\ log # <<>>
    /\ ~IsZero(angular_speed) /\ ~IsZero(gravity)
    /\ start.vel[1] # Zero

\* C9: the event queue is polled once an iteration, as its first step; an
\* iteration that has begun runs all its steps; once running is false no
\* further iteration begins, and the program exits
C9_Safe ==
    /\ (trace # <<>>) => trace[1] = "poll"
    /\ \A k \in 2..Len(trace) : trace[k] # "poll"
    /\ (pc = "poll") = (trace = <<>> /\ ticks > 0 /\ pc # "loop" /\ pc # "exited")
    /\ (pc \in {"loop", "exited"} /\ ticks > 0) => trace = FullTick
    /\ (pc = "exited") => ~running

C9_NoTickAfterStop == ~running => ticks' = ticks

C9_StopEndsRun ==
    /\ []C9_Safe
    /\ [][C9_NoTickAfterStop]_vars
    /\ (~running ~> pc = "exited")

\* C9's case: the program has exited after an iteration, not the first,
\* polled a QUIT event and ran to its end
C9_Witness ==
    pc = "exited" /\ ticks >= 2 /\ ~running /\ trace = FullTick /\ log # <<>>

=============================================================================
